---------------------------- MODULE Spec2Model ----------------------------
(***************************************************************************)
(* A model of the EricPlayground configuration editor: the string-to-value *)
(* conversion of util.py and the form widgets, navigation and save action  *)
(* of tui.py.                                                              *)
(*                                                                         *)
(* A Python str is modelled as a sequence of characters, a character as a  *)
(* one-token string.  Three tokens stand for characters that have no       *)
(* printable one-letter name: "sp" is the space U+0020, "nl" the line feed *)
(* U+000A and "sup2" the superscript two U+00B2.                           *)
(***************************************************************************)
EXTENDS Integers, Sequences, FiniteSets, TLC

VARIABLES
    \* util.type_cast: the arguments, the position of the call, the outcome
    cast_value, cast_typ, cast_pc, cast_result,
    \* KayakuScreen.from_model: the config model, the position of the call,
    \* the outcome
    build_model, build_pc, build_result,
    \* the MutableInputField widgets: data and _input of each instance, the
    \* dict that the class attribute _widgets holds, the MutableInputPair
    \* rows mounted under each instance, the Notification widgets mounted
    \* on the screen, and the history of the button presses handled
    data, _input, _widgets, mounted, notifications, events,
    \* the InputField widgets and the save action: data of each instance,
    \* the values the configuration store holds, and what the store last
    \* wrote out
    field_data, store, saved,
    \* navigation: the classes the configuration store knows, the context
    \* variables INSTALLED_SCREENS and CURRENT_SCREEN, the application's
    \* screen stack, whether compose has run, and the history of the names
    \* that action_next_screen selected
    cls_domains, INSTALLED_SCREENS, CURRENT_SCREEN, screen_stack, composed,
    next_log

castVars == <<cast_value, cast_typ, cast_pc, cast_result>>

buildVars == <<build_model, build_pc, build_result>>

formVars == <<data, _input, _widgets, mounted, notifications, events>>

saveVars == <<field_data, store, saved>>

navVars == <<cls_domains, INSTALLED_SCREENS, CURRENT_SCREEN, screen_stack,
             composed, next_log>>

vars == <<castVars, buildVars, formVars, saveVars, navVars>>

(***************************************************************************)
(* Bounds of the model.                                                    *)
(***************************************************************************)
\* longest raw string over NumChars handed to type_cast
MaxLen == 4

\* most fields of a config model handed to from_model
MaxFields == 2

\* most button presses of one editing session that are followed
MaxEvents == 5

\* most Notification widgets on the screen at once
MaxNotifications == 1

\* most screens pushed on top of the default screen
MaxPushes == 4

(***************************************************************************)
(* Characters and the str methods util.py uses.                            *)
(***************************************************************************)
\* the decimal digits; position d + 1 holds the digit of value d
DigitChars == <<"0", "1", "2", "3", "4", "5", "6", "7", "8", "9">>

AsciiDigits == {DigitChars[i] : i \in 1..10}

DigitOf(c) == (CHOOSE i \in 1..10 : DigitChars[i] = c) - 1

Whitespace == {"sp", "nl"}

\* the characters raw numeric input is drawn from
NumChars == {"0", "1"} \cup Whitespace \cup {".", "-", "e", "sup2"}

UpperOf == [t |-> "T", r |-> "R", u |-> "U", e |-> "E", f |-> "F",
            a |-> "A", l |-> "L", s |-> "S", y |-> "Y"]

\* str.lower, one character
LowerChar(c) ==
    IF \E k \in DOMAIN UpperOf : UpperOf[k] = c
    THEN CHOOSE k \in DOMAIN UpperOf : UpperOf[k] = c
    ELSE c

\* str.lower
lower(x) == [i \in 1..Len(x) |-> LowerChar(x[i])]

\* str.isdigit: non-empty and every character has the Unicode property
\* Digit, which the superscript two has although it is no decimal digit
isdigit(x) == Len(x) > 0 /\ \A i \in 1..Len(x) : x[i] \in AsciiDigits \cup {"sup2"}

\* every character is a decimal digit (Unicode Nd): what \d, int and float accept
AllDecimal(x) == \A i \in 1..Len(x) : x[i] \in AsciiDigits

RECURSIVE DigitsValue(_)
DigitsValue(d) ==
    IF Len(d) = 0 THEN 0
    ELSE 10 * DigitsValue(SubSeq(d, 1, Len(d) - 1))
         + DigitOf(d[Len(d)])

RECURSIVE LStrip(_)
LStrip(x) ==
    IF Len(x) > 0 /\ x[1] \in Whitespace THEN LStrip(Tail(x)) ELSE x

RECURSIVE RStrip(_)
RStrip(x) ==
    IF Len(x) > 0 /\ x[Len(x)] \in Whitespace
    THEN RStrip(SubSeq(x, 1, Len(x) - 1)) ELSE x

\* str.strip, which int() and float() apply to their argument
strip(x) == RStrip(LStrip(x))

\* the positions of character c in x
Positions(x, c) == {i \in 1..Len(x) : x[i] = c}

Min(S) == CHOOSE m \in S : \A n \in S : m <= n

(***************************************************************************)
(* Python values and outcomes of a call.                                   *)
(***************************************************************************)
StrVal(x) == [t |-> "str", s |-> x]
IntVal(n) == [t |-> "int", n |-> n]
BoolVal(b) == [t |-> "bool", b |-> b]

\* a float as mant * 10^exp, mant not divisible by ten (0.0 is mant 0, exp 0)
RECURSIVE FloatVal(_, _)
FloatVal(mant, exp) ==
    IF mant = 0 THEN [t |-> "float", mant |-> 0, exp |-> 0]
    ELSE IF mant % 10 = 0 THEN FloatVal(mant \div 10, exp + 1)
    ELSE [t |-> "float", mant |-> mant, exp |-> exp]

Return(v) == [kind |-> "return", val |-> v]
Raise(exc) == [kind |-> "raise", exc |-> exc]

\* isinstance(value, typ) for the value types of the model
isinstance(value, typ) ==
    \/ value.t = typ
    \/ value.t = "bool" /\ typ = "int"

(***************************************************************************)
(* int(x) and float(x) on a str.                                           *)
(***************************************************************************)
\* int(x): surrounding whitespace is stripped, a sign is accepted, the rest
\* is one or more decimal digits
int(x) ==
    LET s == strip(x)
        neg == Len(s) > 0 /\ s[1] = "-"
        d == IF neg THEN Tail(s) ELSE s
    IN  IF Len(d) > 0 /\ AllDecimal(d)
        THEN Return(IntVal(IF neg THEN 0 - DigitsValue(d) ELSE DigitsValue(d)))
        ELSE Raise("ValueError")

\* float(x): stripped; [sign] (digits [. [digits]] | . digits) [e [sign] digits]
float(x) ==
    LET s == strip(x)
        neg == Len(s) > 0 /\ s[1] = "-"
        b == IF neg THEN Tail(s) ELSE s
        es == Positions(b, "e")
        hasExp == es # {}
        mp == IF hasExp THEN SubSeq(b, 1, Min(es) - 1) ELSE b
        ep == IF hasExp THEN SubSeq(b, Min(es) + 1, Len(b)) ELSE <<>>
        eneg == Len(ep) > 0 /\ ep[1] = "-"
        ed == IF eneg THEN Tail(ep) ELSE ep
        ds == Positions(mp, ".")
        hasDot == ds # {}
        ip == IF hasDot THEN SubSeq(mp, 1, Min(ds) - 1) ELSE mp
        fp == IF hasDot THEN SubSeq(mp, Min(ds) + 1, Len(mp)) ELSE <<>>
        okExp == ~hasExp \/ (Len(ed) > 0 /\ AllDecimal(ed))
        okMant == AllDecimal(ip) /\ AllDecimal(fp) /\ Len(ip) + Len(fp) > 0
        mant == DigitsValue(ip \o fp)
        exp == (IF eneg THEN 0 - DigitsValue(ed) ELSE DigitsValue(ed)) - Len(fp)
    IN  IF okExp /\ okMant
        THEN Return(FloatVal(IF neg THEN 0 - mant ELSE mant, exp))
        ELSE Raise("ValueError")

\* re.match(r"^\d+\.\d+$", x) is not None: $ also matches before a final "\n"
FloatPattern(x) ==
    LET b == IF Len(x) > 0 /\ x[Len(x)] = "nl" THEN SubSeq(x, 1, Len(x) - 1) ELSE x
        ds == Positions(b, ".")
    IN  /\ Cardinality(ds) = 1
        /\ LET d == Min(ds)
           IN  /\ 1 < d /\ d < Len(b)
               /\ AllDecimal(SubSeq(b, 1, d - 1))
               /\ AllDecimal(SubSeq(b, d + 1, Len(b)))

(***************************************************************************)
(* util.py                                                                 *)
(***************************************************************************)
\* the keys of VALIDATOR and of CASTER
SupportedTypes == {"str", "int", "float", "bool"}

BoolLiterals == { <<"T", "r", "u", "e">>, <<"F", "a", "l", "s", "e">>,
                  <<"t", "r", "u", "e">>, <<"f", "a", "l", "s", "e">> }

\* a validator for bool that compares case-insensitively
VALIDATOR_caseless(typ, x) ==
    CASE typ = "str" -> TRUE
      [] typ = "int" -> isdigit(x)
      [] typ = "float" -> FloatPattern(x)
      [] typ = "bool" -> lower(x) \in { <<"t", "r", "u", "e">>, <<"f", "a", "l", "s", "e">> }

VALIDATOR(typ, x) ==
    CASE typ = "str" -> TRUE
      [] typ = "int" -> isdigit(x)
      [] typ = "float" -> FloatPattern(x)
      [] typ = "bool" -> x \in BoolLiterals

CASTER(typ, x) ==
    CASE typ = "str" -> Return(StrVal(x))
      [] typ = "int" -> int(x)
      [] typ = "float" -> float(x)
      [] typ = "bool" -> Return(BoolVal(lower(x) = <<"t", "r", "u", "e">>))

type_cast(value, typ) ==
    IF isinstance(value, typ) THEN Return(value)
    ELSE IF typ \notin SupportedTypes THEN Raise("NotImplementedError")
    ELSE IF ~VALIDATOR(typ, value.s) THEN Raise("ValueError")
    ELSE CASTER(typ, value.s)

(***************************************************************************)
(* The inputs of type_cast.                                                *)
(***************************************************************************)
StringsUpTo(chars, n) == UNION {[1..k -> chars] : k \in 0..n}

CaseVariants(w) ==
    {[i \in 1..Len(w) |-> IF m[i] THEN UpperOf[w[i]] ELSE w[i]] :
        m \in [1..Len(w) -> BOOLEAN]}

Words == { <<"t", "r", "u", "e">>, <<"f", "a", "l", "s", "e">>, <<"y", "e", "s">> }

RawStrings == StringsUpTo(NumChars, MaxLen) \cup UNION {CaseVariants(w) : w \in Words}

\* the four kinds and one type outside the tables
CastTypes == SupportedTypes \cup {"Path"}

NoResult == [kind |-> "none"]

CastIdle ==
    /\ cast_value = StrVal(<<>>)
    /\ cast_typ = "str"
    /\ cast_pc = "idle"
    /\ cast_result = NoResult

CastInit ==
    /\ cast_value \in {StrVal(x) : x \in RawStrings}
    /\ cast_typ \in CastTypes
    /\ cast_pc = "call"
    /\ cast_result = NoResult

type_cast_call ==
    /\ cast_pc = "call"
    /\ cast_result' = type_cast(cast_value, cast_typ)
    /\ cast_pc' = "returned"
    /\ UNCHANGED <<cast_value, cast_typ>>

(***************************************************************************)
(* Config models: dataclass fields and their declared types.               *)
(***************************************************************************)
\* a class that is no parametrized generic, and a parametrized generic
Plain(n) == [origin |-> "None", arg |-> n]
Generic(o, a) == [origin |-> o, arg |-> a]

\* typing_extensions.get_origin
get_origin(typ) == typ.origin

\* dataclasses.MISSING
MISSING == [t |-> "MISSING"]

\* str(v) of a decimal number n >= 0
RECURSIVE NatToDigits(_)
NatToDigits(n) ==
    IF n < 10 THEN <<DigitChars[n + 1]>>
    ELSE NatToDigits(n \div 10) \o <<DigitChars[(n % 10) + 1]>>

\* str(v)
str(v) ==
    CASE v.t = "str" -> v.s
      [] v.t = "int" -> IF v.n < 0 THEN <<"-">> \o NatToDigits(0 - v.n)
                        ELSE NatToDigits(v.n)
      [] v.t = "bool" -> IF v.b THEN <<"T", "r", "u", "e">>
                         ELSE <<"F", "a", "l", "s", "e">>

\* a rich Text as its styled segments
Segment(text, style) == [text |-> text, style |-> style]

\* the literal that marks a required field (two CJK characters in the
\* source, after an asterisk and before a space)
RequiredMarker == <<"*", "required", "sp">>

\* the placeholder of a field whose default is the empty string (three CJK
\* characters in angle brackets in the source)
UnsetPlaceholder == <<"<", "unset", ">">>

(***************************************************************************)
(* KayakuScreen                                                            *)
(***************************************************************************)
is_required_field(field) ==
    field.default.t = "MISSING" /\ field.default_factory.t = "MISSING"

assemble_description(required, docs, hint) ==
    IF ~required /\ docs = <<>>
    THEN <<Segment(hint, "bold green")>>
    ELSE << IF required THEN Segment(RequiredMarker, "bold red")
            ELSE Segment(<<>>, ""),
            Segment(docs, ""),
            Segment(<<"nl", "nl">>, ""),
            Segment(<<"@type: ">>, ""),
            Segment(hint, "bold green") >>

\* one pass of the loop over dataclasses.fields(model)
FieldComponent(model, field) ==
    LET typ == field.typ
        typ_origin == get_origin(typ)
        hint == IF typ_origin # "None"
                THEN <<typ.origin, "[", typ.arg, "]">>
                ELSE <<typ.arg>>
        docs == field.description
        desc == assemble_description(is_required_field(field), docs, hint)
        default == IF field.default.t = "str" /\ field.default.s = <<>>
                   THEN StrVal(UnsetPlaceholder)
                   ELSE IF field.default.t = "MISSING" THEN StrVal(<<>>)
                   ELSE field.default
        input_field == IF typ_origin = "list" THEN "MutableInputField"
                       ELSE "InputField"
    IN  [widget |-> input_field, classes |-> model.name, label |-> field.name,
         placeholder |-> str(default), description |-> desc]

from_model(model) ==
    Return([model |-> model.name,
            title |-> model.name,
            components |-> [i \in 1..Len(model.fields) |->
                               FieldComponent(model, model.fields[i])]])

(***************************************************************************)
(* The config models handed to from_model.                                 *)
(***************************************************************************)
DeclaredTypes ==
    {Plain("str"), Plain("int"), Plain("float"), Plain("bool"), Plain("Path"),
     Generic("list", "int"), Generic("list", "Path"), Generic("dict", "str, int")}

\* the defaults a field of the type is declared with in the model
DefaultsOf(typ) ==
    CASE typ = Plain("str") -> {MISSING, StrVal(<<>>), StrVal(<<"l", "o", "g">>)}
      [] typ = Plain("int") -> {MISSING, IntVal(7)}
      [] typ = Plain("bool") -> {MISSING, BoolVal(FALSE)}
      [] OTHER -> {MISSING}

FactoriesOf(typ) ==
    IF typ.origin \in {"list", "dict"} THEN {MISSING, [t |-> typ.origin]}
    ELSE {MISSING}

Docs == {<<>>, <<"d", "o", "c">>}

FieldShapes ==
    {[typ |-> typ, default |-> d, default_factory |-> f, description |-> doc] :
        typ \in DeclaredTypes, d \in UNION {DefaultsOf(t) : t \in DeclaredTypes},
        f \in {MISSING, [t |-> "list"], [t |-> "dict"]}, doc \in Docs}

\* a dataclass takes no field without a default after one with a default
WellFormedFields(shapes) ==
    /\ \A i \in 1..Len(shapes) :
          /\ shapes[i].default \in DefaultsOf(shapes[i].typ)
          /\ shapes[i].default_factory \in FactoriesOf(shapes[i].typ)
    /\ \A i, j \in 1..Len(shapes) :
          (i < j /\ ~is_required_field(shapes[i])) => ~is_required_field(shapes[j])

FieldName(i) == <<"f">> \o NatToDigits(i)

ConfigModels ==
    {[name |-> "EricConfig",
      fields |-> [i \in 1..Len(shapes) |->
                    [name |-> FieldName(i), typ |-> shapes[i].typ,
                     default |-> shapes[i].default,
                     default_factory |-> shapes[i].default_factory,
                     description |-> shapes[i].description]]] :
        shapes \in {sh \in UNION {[1..k -> FieldShapes] : k \in 0..MaxFields} :
                      WellFormedFields(sh)}}

BuildIdle ==
    /\ build_model = [name |-> "", fields |-> <<>>]
    /\ build_pc = "idle"
    /\ build_result = NoResult

BuildInit ==
    /\ build_model \in ConfigModels
    /\ build_pc = "call"
    /\ build_result = NoResult

from_model_call ==
    /\ build_pc = "call"
    /\ build_result' = from_model(build_model)
    /\ build_pc' = "returned"
    /\ UNCHANGED build_model

(***************************************************************************)
(* MutableInputField                                                       *)
(***************************************************************************)
\* the list fields of EricConfig that from_model gives a MutableInputField;
\* each is constructed with classes = "EricConfig"
Fields == {"accounts", "owners"}

_field_classes(f) == "EricConfig"

button_id_prefix(f) == _field_classes(f)

\* the ids of the "+" button and of the "-" button of row index:
\* prefix + "_add" and prefix + "_remove_" + str(index), as the pieces that
\* id.split("_") yields
AddButtonId(f) == <<button_id_prefix(f), "add">>

RemoveButtonId(f, index) == <<button_id_prefix(f), "remove", NatToDigits(index)>>

\* the buttons inside instance f, whose Button.Pressed bubbles up to f
ButtonsOf(f) == {AddButtonId(f)} \cup {RemoveButtonId(f, i) : i \in mounted[f]}

\* the text of the notice for an empty input (six CJK characters in the source)
EmptyInputNotice == "input must not be empty"

\* what the user can type into the Input of a field
PendingTexts == {<<>>, <<"a">>}

MutableInputField_on_input_changed(f, value) ==
    /\ _input' = [_input EXCEPT ![f] = value]
    /\ UNCHANGED <<data, _widgets, mounted, notifications, events>>

\* the next position counted from the rows on display
NextIndex_dense(f) == Cardinality(mounted[f]) + 1

\* index = len(self.data) + 1
NextIndex(f) == Len(data[f]) + 1

\* a check that lets every input pass
InputIsEmpty_never(f) == FALSE

\* not self._input
InputIsEmpty(f) == _input[f] = <<>>

\* MutableInputField.on_button_pressed of instance f for the button id
on_button_pressed(f, id) ==
    IF id[1] # button_id_prefix(f)
    THEN UNCHANGED formVars
    ELSE IF Len(id) >= 2 /\ id[2] = "remove"
    THEN \* index = id.split("_")[-1]; the row is removed if the dict has it
         /\ Len(events) < MaxEvents
         /\ LET index == id[Len(id)]
            IN  IF index \in DOMAIN _widgets
                THEN /\ mounted' = [mounted EXCEPT ![_widgets[index].field] =
                                       @ \ {_widgets[index].index}]
                     /\ _widgets' = [k \in DOMAIN _widgets \ {index} |-> _widgets[k]]
                ELSE UNCHANGED <<mounted, _widgets>>
         /\ events' = Append(events, [op |-> "remove", field |-> f,
                                      index |-> DigitsValue(id[Len(id)])])
         /\ UNCHANGED <<data, _input, notifications>>
    ELSE IF InputIsEmpty(f)
    THEN /\ Len(notifications) < MaxNotifications
         /\ notifications' = Append(notifications, EmptyInputNotice)
         /\ UNCHANGED <<data, _input, _widgets, mounted, events>>
    ELSE /\ Len(events) < MaxEvents
         /\ LET index == NextIndex(f)
                key == NatToDigits(index)
            IN  /\ mounted' = [mounted EXCEPT ![f] = @ \cup {index}]
                /\ data' = [data EXCEPT ![f] = Append(@, _input[f])]
                /\ _widgets' = [k \in DOMAIN _widgets \cup {key} |->
                                  IF k = key THEN [field |-> f, index |-> index]
                                  ELSE _widgets[k]]
                /\ events' = Append(events, [op |-> "add", field |-> f,
                                             index |-> index, text |-> _input[f]])
         /\ _input' = [_input EXCEPT ![f] = <<>>]
         /\ UNCHANGED notifications

\* Notification.on_mount's three-second timer, or Notification.on_click
Notification_remove(i) ==
    /\ i \in 1..Len(notifications)
    /\ notifications' = [j \in 1..(Len(notifications) - 1) |->
                            IF j < i THEN notifications[j] ELSE notifications[j + 1]]
    /\ UNCHANGED <<data, _input, _widgets, mounted, events>>

FormInit ==
    /\ data = [f \in Fields |-> <<>>]
    /\ _input = [f \in Fields |-> <<>>]
    /\ _widgets = <<>>
    /\ mounted = [f \in Fields |-> {}]
    /\ notifications = <<>>
    /\ events = <<>>

(***************************************************************************)
(* InputField and EricTUI.action_save                                      *)
(***************************************************************************)
\* fields of EricConfig that from_model gives an InputField, with their
\* declared types and the values the configuration store holds for them
SingleFields == {"description", "debug", "log_rotate"}

FieldType(f) ==
    CASE f = "description" -> "str"
      [] f = "debug" -> "bool"
      [] f = "log_rotate" -> "int"

StoredValue(f) ==
    CASE f = "description" -> StrVal(<<>>)
      [] f = "debug" -> BoolVal(FALSE)
      [] f = "log_rotate" -> IntVal(7)

\* InputField declares data without a value: it has none before the first
\* Input.Changed
NoData == [t |-> "unset"]

\* what the user can type into the Input of an InputField
TypedTexts == { <<"1">>, <<"t", "r", "u", "e">>, <<"x">> }

\* the text of the notice of a save (five CJK characters in the source)
SavedNotice == "changes saved"

InputField_on_input_changed(f, value) ==
    /\ field_data' = [field_data EXCEPT ![f] = StrVal(value)]
    /\ UNCHANGED <<store, saved, formVars>>

\* kayaku.save_all() writes out the values the store holds; the widgets'
\* data is not read
action_save ==
    /\ Len(notifications) < MaxNotifications
    /\ saved' = [kind |-> "written", values |-> store]
    /\ notifications' = Append(notifications, SavedNotice)
    /\ UNCHANGED <<field_data, store, data, _input, _widgets, mounted, events>>

SaveIdle ==
    /\ field_data = [f \in SingleFields |-> NoData]
    /\ store = [f \in SingleFields |-> StoredValue(f)]
    /\ saved = [kind |-> "none"]

(***************************************************************************)
(* Navigation: mount_screens, EricTUI.action_next_screen, ScreenLink       *)
(***************************************************************************)
\* config classes of model.py
ModelNames == {"EricConfig", "FunctionConfig", "PathConfig"}

\* the name of the screen that App pushes first
DefaultScreen == "_default"

\* the orders in which the store can hold some of the classes
RECURSIVE Orderings(_)
Orderings(S) ==
    {<<>>} \cup UNION {{<<n>> \o o : o \in Orderings(S \ {n})} : n \in S}

\* list.index
index_of(screens, name) == Min({i \in 1..Len(screens) : screens[i] = name})

mount_screens ==
    /\ ~composed
    /\ LET installed == IF cls_domains = <<>> THEN <<"Fallback">> ELSE cls_domains
       IN  INSTALLED_SCREENS' = installed
    /\ composed' = TRUE
    /\ UNCHANGED <<cls_domains, CURRENT_SCREEN, screen_stack, next_log>>

\* at the last screen the selection stays where it is
action_next_screen_nowrap ==
    /\ composed
    /\ Len(screen_stack) <= MaxPushes
    /\ LET screens == INSTALLED_SCREENS
           next == IF CURRENT_SCREEN = "" THEN screens[1]
                   ELSE IF index_of(screens, CURRENT_SCREEN) = Len(screens)
                   THEN CURRENT_SCREEN
                   ELSE screens[index_of(screens, CURRENT_SCREEN) + 1]
       IN  /\ CURRENT_SCREEN' = next
           /\ screen_stack' = Append(screen_stack, next)
           /\ next_log' = Append(next_log, next)
    /\ UNCHANGED <<cls_domains, INSTALLED_SCREENS, composed>>

\* list indices are zero-based in the source and one-based here
action_next_screen ==
    /\ composed
    /\ Len(screen_stack) <= MaxPushes
    /\ LET screens == INSTALLED_SCREENS
           next == IF CURRENT_SCREEN = "" THEN screens[1]
                   ELSE LET index == index_of(screens, CURRENT_SCREEN) - 1
                            count == Len(screens)
                        IN  screens[((index + 1) % count) + 1]
       IN  /\ CURRENT_SCREEN' = next
           /\ screen_stack' = Append(screen_stack, next)
           /\ next_log' = Append(next_log, next)
    /\ UNCHANGED <<cls_domains, INSTALLED_SCREENS, composed>>

\* the quick-access panel is part of the Body of every KayakuScreen, and
\* reg_screen has given it one ScreenLink per installed name
ScreenLink_on_click(reveal) ==
    /\ composed
    /\ Len(screen_stack) <= MaxPushes
    /\ screen_stack[Len(screen_stack)] \in ModelNames
    /\ screen_stack' = Append(screen_stack, reveal)
    /\ UNCHANGED <<cls_domains, INSTALLED_SCREENS, CURRENT_SCREEN, composed, next_log>>

NavIdle ==
    /\ cls_domains = <<>>
    /\ INSTALLED_SCREENS = <<>>
    /\ CURRENT_SCREEN = ""
    /\ screen_stack = <<DefaultScreen>>
    /\ composed = FALSE
    /\ next_log = <<>>

NavInit ==
    /\ cls_domains \in Orderings(ModelNames)
    /\ INSTALLED_SCREENS = <<>>
    /\ CURRENT_SCREEN = ""
    /\ screen_stack = <<DefaultScreen>>
    /\ composed = FALSE
    /\ next_log = <<>>


(***************************************************************************)
(* The specifications: one per part of the program.                        *)
(***************************************************************************)
\* the other parts of the program stay as they are while one part runs
TypeCastCalled ==
    type_cast_call /\ UNCHANGED <<buildVars, formVars, saveVars, navVars>>

CastNext == TypeCastCalled

FromModelCalled ==
    from_model_call /\ UNCHANGED <<castVars, formVars, saveVars, navVars>>

BuildNext == FromModelCalled

PendingInputChanged ==
    /\ \E f \in Fields, value \in PendingTexts :
          MutableInputField_on_input_changed(f, value)
    /\ UNCHANGED <<castVars, buildVars, saveVars, navVars>>

ButtonPressed ==
    /\ \E f \in Fields : \E id \in ButtonsOf(f) : on_button_pressed(f, id)
    /\ UNCHANGED <<castVars, buildVars, saveVars, navVars>>

NotificationRemoved ==
    /\ \E i \in 1..Len(notifications) : Notification_remove(i)
    /\ UNCHANGED <<castVars, buildVars, saveVars, navVars>>

FormNext == PendingInputChanged \/ ButtonPressed \/ NotificationRemoved

InputChanged ==
    /\ \E f \in SingleFields, value \in TypedTexts :
          InputField_on_input_changed(f, value)
    /\ UNCHANGED <<castVars, buildVars, navVars>>

SavePressed ==
    action_save /\ UNCHANGED <<castVars, buildVars, navVars>>

SaveNext == InputChanged \/ SavePressed \/ NotificationRemoved

Composed ==
    mount_screens /\ UNCHANGED <<castVars, buildVars, formVars, saveVars>>

NextScreenPressed ==
    action_next_screen /\ UNCHANGED <<castVars, buildVars, formVars, saveVars>>

ScreenLinkClicked ==
    /\ \E i \in 1..Len(INSTALLED_SCREENS) : ScreenLink_on_click(INSTALLED_SCREENS[i])
    /\ UNCHANGED <<castVars, buildVars, formVars, saveVars>>

NavNext == Composed \/ NextScreenPressed \/ ScreenLinkClicked

CastSpecInit == CastInit /\ BuildIdle /\ FormInit /\ SaveIdle /\ NavIdle

SpecCast == CastSpecInit /\ [][CastNext]_vars

BuildSpecInit == BuildInit /\ CastIdle /\ FormInit /\ SaveIdle /\ NavIdle

SpecBuild == BuildSpecInit /\ [][BuildNext]_vars

FormSpecInit == FormInit /\ CastIdle /\ BuildIdle /\ SaveIdle /\ NavIdle

SpecForm == FormSpecInit /\ [][FormNext]_vars

SaveSpecInit == SaveIdle /\ FormInit /\ CastIdle /\ BuildIdle /\ NavIdle

SpecSave == SaveSpecInit /\ [][SaveNext]_vars

NavSpecInit == NavInit /\ FormInit /\ CastIdle /\ BuildIdle /\ SaveIdle

SpecNav == NavSpecInit /\ [][NavNext]_vars

(***************************************************************************)
(* The claims.                                                             *)
(***************************************************************************)
\* the presses of the history that added an item to field f
IsAddOf(e, f) == e.op = "add" /\ e.field = f

\* three adds to f, the removal of its row 2, one more add, and nothing else
ScenarioHappened(f) ==
    /\ Len(events) = 5
    /\ \A k \in {1, 2, 3, 5} : IsAddOf(events[k], f)
    /\ events[4].op = "remove" /\ events[4].field = f /\ events[4].index = 2

\* C1: the positions that successive successful adds give the items of one
\* field are strictly increasing, whatever adds and removals are interleaved;
\* and after a session of three adds, the removal of row 2 and one more add
\* on a field, exactly the positions 1, 3 and 4 are tracked and displayed.
C1_PositionsIncrease ==
    \A f \in Fields :
        /\ \A i, j \in 1..Len(events) :
              (i < j /\ IsAddOf(events[i], f) /\ IsAddOf(events[j], f))
                  => events[i].index < events[j].index
        /\ ScenarioHappened(f) =>
              /\ DOMAIN _widgets = {<<"1">>, <<"3">>, <<"4">>}
              /\ mounted[f] = {1, 3, 4}

\* the session of C1 has taken place on some field
C1_Witness == \E f \in Fields : ScenarioHappened(f)

\* the texts added to f whose row was not removed afterwards
RECURSIVE KeptItems(_, _)
KeptItems(f, k) ==
    IF k = 0 THEN <<>>
    ELSE LET e == events[k]
             removedLater ==
                 \E j \in (k + 1)..Len(events) :
                     /\ events[j].op = "remove" /\ events[j].field = f
                     /\ events[j].index = e.index
         IN  IF IsAddOf(e, f) /\ ~removedLater
             THEN Append(KeptItems(f, k - 1), e.text)
             ELSE KeptItems(f, k - 1)

\* C2: the committed sequence of a field holds exactly the items that were
\* added to it and not removed, in the order they were added.
C2_RemovedItemsLeaveData ==
    \A f \in Fields : data[f] = KeptItems(f, Len(events))

\* C3: a press of "+" on a field whose pending input is empty mounts the
\* empty-input notice and changes neither the committed items, nor the
\* tracked rows, nor the pending input of any field.
C3_EmptyAddOnlyNotifies ==
    [][\A f \in Fields :
          (_input[f] = <<>> /\ on_button_pressed(f, AddButtonId(f)))
              => /\ notifications' = Append(notifications, EmptyInputNotice)
                 /\ UNCHANGED <<data, _widgets, mounted, _input>>]_vars

\* an empty add has happened after an item was committed: its notice is
\* on the screen
C3_Witness ==
    /\ \E i \in 1..Len(notifications) : notifications[i] = EmptyInputNotice
    /\ \E f \in Fields : Len(data[f]) > 0 /\ _input[f] = <<>>

\* the working value of every field is valid for the field's kind, or absent
AllWorkingValuesValid ==
    \A f \in SingleFields :
        field_data[f] # NoData =>
            type_cast(field_data[f], FieldType(f)).kind = "return"

\* the mapping a commit is to produce: per field the working value coerced
\* to the field's kind, or the stored default where there is none
CommitMapping ==
    [f \in SingleFields |->
        IF field_data[f] # NoData
        THEN type_cast(field_data[f], FieldType(f)).val
        ELSE StoredValue(f)]

\* C4: a save in a session where every field has a valid working value or
\* a default writes out a mapping with one entry per field of the schema,
\* each the field's working value (or default) coerced to the field's kind.
C4_SaveWritesWorkingValues ==
    [][(action_save /\ AllWorkingValuesValid)
          => saved' = [kind |-> "written", values |-> CommitMapping]]_vars

\* C5: the first next-screen action selects the first installed name and
\* every later one the successor of the name selected before it, the last
\* name being followed by the first: the k-th action selects the installed
\* name at position (k - 1) modulo the number of installed names.
C5_NavigationCyclic ==
    \A k \in 1..Len(next_log) :
        /\ Len(INSTALLED_SCREENS) > 0
        /\ next_log[k] = INSTALLED_SCREENS[((k - 1) % Len(INSTALLED_SCREENS)) + 1]
        /\ k = Len(next_log) => CURRENT_SCREEN = next_log[k]

\* with two or more screens installed, a next-screen action has wrapped
\* from the last name to the first
C5_Witness ==
    /\ Len(INSTALLED_SCREENS) >= 2
    /\ Len(next_log) = Len(INSTALLED_SCREENS) + 1
    /\ CURRENT_SCREEN = INSTALLED_SCREENS[1]

\* C6: once a screen has been pushed, the recorded current screen name is
\* the name of the screen pushed last.
C6_CurrentIsDisplayed ==
    Len(screen_stack) > 1 => CURRENT_SCREEN = screen_stack[Len(screen_stack)]

\* C7: for every supported kind k and every string s, the validator of k
\* accepts s if and only if the caster of k does not fail on s.
C7_ValidateIffCoerce ==
    cast_typ \in SupportedTypes =>
        (VALIDATOR(cast_typ, cast_value.s)
            <=> CASTER(cast_typ, cast_value.s).kind = "return")

\* C8 as stated: for kind boolean, conversion succeeds exactly on the
\* strings that equal "true" or "false" when compared case-insensitively,
\* and then returns whether the string case-insensitively equals "true".
C8_BoolCaseInsensitive ==
    (cast_pc = "returned" /\ cast_typ = "bool") =>
        LET low == lower(cast_value.s)
        IN  IF low \in { <<"t", "r", "u", "e">>, <<"f", "a", "l", "s", "e">> }
            THEN cast_result = Return(BoolVal(low = <<"t", "r", "u", "e">>))
            ELSE cast_result = Raise("ValueError")

\* C8 as amended: for kind boolean, conversion succeeds exactly on the four
\* strings "True", "False", "true" and "false", and returns true exactly
\* for "True" and "true"; every other casing is rejected with ValueError.
C8_BoolFourLiterals ==
    (cast_pc = "returned" /\ cast_typ = "bool") =>
        IF cast_value.s \in { <<"T", "r", "u", "e">>, <<"t", "r", "u", "e">> }
        THEN cast_result = Return(BoolVal(TRUE))
        ELSE IF cast_value.s \in { <<"F", "a", "l", "s", "e">>,
                                   <<"f", "a", "l", "s", "e">> }
        THEN cast_result = Return(BoolVal(FALSE))
        ELSE cast_result = Raise("ValueError")

\* "True" has been converted to the boolean true
C8_Witness ==
    /\ cast_pc = "returned" /\ cast_typ = "bool"
    /\ cast_value.s = <<"T", "r", "u", "e">>
    /\ cast_result = Return(BoolVal(TRUE))

\* a declared type the form supports: a scalar kind or a list of one
IsSupportedType(typ) ==
    \/ typ.origin = "None" /\ typ.arg \in SupportedTypes
    \/ typ.origin = "list" /\ typ.arg \in SupportedTypes

\* C9: building the form of a model with a field whose declared type is
\* neither a scalar kind nor a list of one fails with a descriptor error
\* that names such a field and its type.
C9_UnsupportedTypeFailsBuild ==
    (/\ build_pc = "returned"
     /\ \E i \in 1..Len(build_model.fields) :
            ~IsSupportedType(build_model.fields[i].typ))
    => /\ build_result.kind = "raise"
       /\ \E i \in 1..Len(build_model.fields) :
            /\ ~IsSupportedType(build_model.fields[i].typ)
            /\ build_result.exc = [name |-> "DescriptorError",
                                   field |-> build_model.fields[i].name,
                                   typ |-> build_model.fields[i].typ]

\* C10: a press of a button of field f changes neither the tracked
\* positions, nor the displayed rows, nor the committed items of any other
\* field g.
C10_FieldsIsolated ==
    [][\A f \in Fields : \A id \in ButtonsOf(f) :
          on_button_pressed(f, id)
              => \A g \in Fields \ {f} :
                     /\ mounted'[g] = mounted[g]
                     /\ data'[g] = data[g]
                     /\ {k \in DOMAIN _widgets' : _widgets'[k].field = g}
                            = {k \in DOMAIN _widgets : _widgets[k].field = g}]_vars

=============================================================================
